---- MODULE Spec2Model ----
(***************************************************************************)
(* A model of the fraud detection pipeline of src/src/fraud_detector.py:   *)
(* the FraudDetector class (preprocess_data, train_model, predict_fraud,   *)
(* save_model, load_model, generate_report) and main, run repeatedly over  *)
(* CSV files of varying schemas with the model file persisting on disk.    *)
(* With it, the file watcher of src/tools/file_monitor.py (SpecWatch) and  *)
(* the GET endpoints of src/dashboard/app.py (SpecDash).                   *)
(*                                                                         *)
(* Conventions.  Python's None and pandas' NaN/NaT are the empty tuple; a  *)
(* present value v is the one-element tuple <<v>>.  Numeric feature cells  *)
(* are fixed-point integers in thousandths.  Probabilities are integers in *)
(* hundredths: the forest averages n_estimators = 100 trees.  df_read is   *)
(* the table as load_data read it.  A report file on disk holds the number *)
(* of the run whose batch it describes.                                    *)
(***************************************************************************)
EXTENDS Integers, Sequences, FiniteSets, TLC

\* one execution after another of main of src/fraud_detector.py
VARIABLES pc, runs, df, X, y, model, feature_columns, predictions,
          probabilities, summary, df_report, error, model_file, trace,
          df_read, detailed_file, summary_file, root_file

\* the watcher of tools/file_monitor.py and the detections it starts
VARIABLES processed_files, event_queue, handler, detections, started, raw_dir,
          watcher_report, git_log, failed_files

\* the dashboard of dashboard/app.py: the files it reads, its data manager
\* and the responses it gives
VARIABLES fraud_report_json, data_raw, cache, response, listed

pipeline_vars == <<pc, runs, df, X, y, model, feature_columns, predictions,
                   probabilities, summary, df_report, error, model_file, trace,
                   df_read, detailed_file, summary_file, root_file>>

watcher_vars == <<processed_files, event_queue, handler, detections, started,
                  raw_dir, watcher_report, git_log, failed_files>>

dashboard_vars == <<fraud_report_json, data_raw, cache, response, listed>>

\* the alert function of deploy/aws/lambda_fraud_email.py: its event, its
\* environment, whether SES accepts the message, what it returns and the
\* messages SES has accepted
VARIABLES lambda_event, environ, ses_accepts, lambda_return, outbox

\* the test-data generators: the table generated and the outcome of main's
\* assertions on it
VARIABLES generated, asserted

\* train_all_models of train_models.py: the labels of the data set, the rows
\* of the training and of the test set, and the rows the unsupervised models
\* are fitted on
VARIABLES y_all, train_rows, test_rows, X_normal

tool_vars == <<lambda_event, environ, ses_accepts, lambda_return, outbox,
               generated, asserted, y_all, train_rows, test_rows, X_normal>>

vars == <<pipeline_vars, watcher_vars, dashboard_vars, tool_vars>>

(***************************************************************************)
(* Bounds of the model.                                                    *)
(***************************************************************************)
\* rows of a CSV fed to main
MaxRows == 4
\* executions of main in one behaviour
MaxRuns == 2
\* rows of a table fed to preprocess_data alone
MaxPreRows == 2
\* rows of a batch fed to generate_report alone
MaxReportRows == 3

(***************************************************************************)
(* Values.                                                                 *)
(***************************************************************************)
None == <<>>
NaN == <<>>
Some(v) == <<v>>
IsNaN(c) == c = <<>>
ValOf(c) == c[1]
\* a model file that joblib.load cannot read
Unreadable == <<"truncated", "joblib">>

EmptyFun == [k \in {} |-> k]

RECURSIVE SumSeq(_)
SumSeq(s) == IF Len(s) = 0 THEN 0 ELSE s[1] + SumSeq(Tail(s))

Range(s) == {s[i] : i \in DOMAIN s}

ToFixed(v) == v * 1000

\* CSVFileHandler.__init__, and no event delivered yet
WatcherOff ==
    /\ processed_files = {}
    /\ event_queue = <<>>
    /\ handler = None
    /\ detections = {}
    /\ started = <<>>
    /\ raw_dir = <<>>
    /\ watcher_report = None
    /\ git_log = <<>>
    /\ failed_files = {}

\* no function invoked, no generator and no trainer run
\* the alert function has not been invoked
LambdaOff ==
    /\ lambda_event = None
    /\ environ = None
    /\ ses_accepts = FALSE
    /\ lambda_return = None
    /\ outbox = <<>>

\* no generator has run
GeneratorsOff ==
    /\ generated = None
    /\ asserted = None

\* no training has run
TrainerOff ==
    /\ y_all = <<>>
    /\ train_rows = <<>>
    /\ test_rows = <<>>
    /\ X_normal = None

ToolsOff == LambdaOff /\ GeneratorsOff /\ TrainerOff

\* FraudDataManager.__init__
NewCache == [last_update |-> None, fraud_data |-> <<>>, statistics |-> EmptyFun]

\* the dashboard before any request, with no report and no CSV on disk
DashboardOff ==
    /\ fraud_report_json = None
    /\ data_raw = <<>>
    /\ cache = NewCache
    /\ response = None
    /\ listed = None

(***************************************************************************)
(* Raw tables (the result of pd.read_csv): a row count and a column map.   *)
(***************************************************************************)
OptCol(name, opt) == IF opt = None THEN EmptyFun ELSE (name :> opt[1])

MkTable(n, a, t, r, tt, f) ==
    [n    |-> n,
     data |-> OptCol("amount", a) @@ OptCol("timestamp", t)
              @@ OptCol("risk_level", r) @@ OptCol("transaction_type", tt)
              @@ OptCol("is_fraud", f)]

Cols(table) == DOMAIN table.data

\* an absent column, or one column of n cells drawn from vals
OptColumns(n, vals) == {None} \cup {Some(c) : c \in [1..n -> vals]}

MondayMorning == "2024-01-01 09:00:00"
SaturdayNight == "2024-01-06 23:00:00"
Unparseable == "not-a-date"

\* a transaction_type column: alternating channels
TypeColumn(n) == [i \in 1..n |-> IF i % 2 = 1 THEN Some("online") ELSE Some("pos")]

(***************************************************************************)
(* pd.to_datetime and the .dt accessors.                                   *)
(***************************************************************************)
ParseOk(c) == c # Some(Unparseable)

to_datetime(c) ==
    IF IsNaN(c) THEN NaN
    ELSE IF c = Some(MondayMorning) THEN <<"datetime64", 9, 0>>
    ELSE IF c = Some(SaturdayNight) THEN <<"datetime64", 23, 5>>
    ELSE c

dt_hour(c) == IF IsNaN(c) THEN NaN ELSE Some(ToFixed(c[2]))
dt_dayofweek(c) == IF IsNaN(c) THEN NaN ELSE Some(ToFixed(c[3]))
\* (dayofweek >= 5).astype(int): a comparison with NaN is False
dt_is_weekend(c) == IF IsNaN(c) THEN Some(0)
                    ELSE IF c[3] >= 5 THEN Some(ToFixed(1)) ELSE Some(0)

\* {'low': 1, 'medium': 2, 'high': 3}, then fillna(1)
risk_mapping(c) ==
    IF c = Some("low") THEN Some(ToFixed(1))
    ELSE IF c = Some("medium") THEN Some(ToFixed(2))
    ELSE IF c = Some("high") THEN Some(ToFixed(3))
    ELSE Some(ToFixed(1))

is_online(c) == IF c = Some("online") THEN Some(ToFixed(1)) ELSE Some(0)

\* np.log1p in thousandths, tabulated on the amounts of the model
log1p(c) ==
    IF IsNaN(c) THEN NaN
    ELSE IF ValOf(c) = 0 THEN Some(0)
    ELSE IF ValOf(c) = 10 THEN Some(2398)
    ELSE IF ValOf(c) = 40 THEN Some(3714)
    ELSE Some(6217)

squared(c) == IF IsNaN(c) THEN NaN ELSE Some(ToFixed(ValOf(c) * ValOf(c)))

amount_feature(c) == IF IsNaN(c) THEN NaN ELSE Some(ToFixed(ValOf(c)))

(***************************************************************************)
(* preprocess_data.                                                        *)
(***************************************************************************)
\* the feature columns built from the raw columns (lines 40-57), in order
BaseColumns(t) ==
    (IF "amount" \in Cols(t) THEN <<"amount">> ELSE <<>>)
    \o (IF "timestamp" \in Cols(t)
        THEN <<"time_hour", "day_of_week", "is_weekend">> ELSE <<>>)
    \o (IF "risk_level" \in Cols(t) THEN <<"risk_score">> ELSE <<>>)
    \o (IF "transaction_type" \in Cols(t) THEN <<"is_online">> ELSE <<>>)

\* a threshold of two feature columns instead of three
FewFeatures_two(base) == Len(base) < 2

FewFeatures(base) == Len(base) < 3

FeatureColumns(t) ==
    IF FewFeatures(BaseColumns(t))
    THEN BaseColumns(t) \o <<"amount_log", "amount_squared">>
    ELSE BaseColumns(t)

\* a scalar assigned to a frame that has no column yet gives a column of no rows
FeatureRows(t) == IF Len(BaseColumns(t)) = 0 THEN 0 ELSE t.n

\* df['timestamp'] = pd.to_datetime(df['timestamp']) assigns into the caller's table
ConvertTimestamps(t) ==
    IF "timestamp" \in Cols(t)
    THEN [t EXCEPT !.data["timestamp"] = [i \in 1..t.n |-> to_datetime(@[i])]]
    ELSE t

TimestampsParse(t) ==
    "timestamp" \in Cols(t) => \A i \in 1..t.n : ParseOk(t.data["timestamp"][i])

RawFeature(t, name, i) ==
    CASE name = "amount" -> amount_feature(t.data["amount"][i])
      [] name = "time_hour" -> dt_hour(to_datetime(t.data["timestamp"][i]))
      [] name = "day_of_week" -> dt_dayofweek(to_datetime(t.data["timestamp"][i]))
      [] name = "is_weekend" -> dt_is_weekend(to_datetime(t.data["timestamp"][i]))
      [] name = "risk_score" -> risk_mapping(t.data["risk_level"][i])
      [] name = "is_online" -> is_online(t.data["transaction_type"][i])
      [] name = "amount_log" ->
            IF "amount" \in Cols(t) THEN log1p(t.data["amount"][i]) ELSE Some(0)
      [] name = "amount_squared" ->
            IF "amount" \in Cols(t) THEN squared(t.data["amount"][i]) ELSE Some(0)

\* Series.mean(): the mean of the cells that are not NaN, NaN when there is none
ColumnMean(col) ==
    LET present == SelectSeq(col, LAMBDA c : ~IsNaN(c))
        values  == [i \in 1..Len(present) |-> ValOf(present[i])]
    IN  IF Len(present) = 0 THEN NaN ELSE Some(SumSeq(values) \div Len(present))

\* fillna(value): a NaN cell takes the value, which may itself be NaN
fillna(col, value) == [i \in DOMAIN col |-> IF IsNaN(col[i]) THEN value ELSE col[i]]

BuildFeatures(t) ==
    LET names == FeatureColumns(t)
        rows  == FeatureRows(t)
        raw   == [name \in Range(names) |-> [i \in 1..rows |-> RawFeature(t, name, i)]]
    IN  [columns |-> names,
         n       |-> rows,
         data    |-> [name \in Range(names) |-> fillna(raw[name], ColumnMean(raw[name]))]]

Target(t) == IF "is_fraud" \in Cols(t)
             THEN Some([i \in 1..t.n |-> ValOf(t.data["is_fraud"][i])])
             ELSE None

(***************************************************************************)
(* train_model: train_test_split(test_size=0.3, stratify=y), then fit.     *)
(***************************************************************************)
Count(labels, c) == Cardinality({i \in DOMAIN labels : labels[i] = c})

\* ceil(0.3 * n_samples)
TestSize(n) == (3 * n + 9) \div 10
TrainSize(n) == n - TestSize(n)

\* the checks of train_test_split that raise ValueError
SplitRaises(features, labels) ==
    LET n == Len(labels)
        classes == Range(labels)
    IN  \/ features.n # n
        \/ n = 0
        \/ TrainSize(n) = 0
        \/ \E c \in classes : Count(labels, c) < 2
        \/ TrainSize(n) < Cardinality(classes)
        \/ TestSize(n) < Cardinality(classes)

\* the fitted forest, as far as its callers can tell: the columns it was
\* fitted on and classes_, the labels of the training part (a stratified
\* split keeps at least one row of every class that has two)
\* a fit that starts from the persisted model and keeps its classes
Fit_warmStart(features, labels) ==
    [columns |-> features.columns,
     classes |-> Range(labels) \cup (IF model_file \in {None, Unreadable} THEN {}
                                     ELSE model_file[1].classes)]

Fit(features, labels) == [columns |-> features.columns, classes |-> Range(labels)]

(***************************************************************************)
(* predict_fraud.                                                          *)
(***************************************************************************)
\* the probabilities a forest may give a row, in hundredths
PipelineProbs == {0, 100}

\* predict() is the argmax over predict_proba(); a tie goes to class 0
PredictLabel(p) == IF 2 * p > 100 THEN 1 ELSE 0

\* predict() validates X against the fit: a different number of features
\* always raises
FeatureCountDiffers(m, features) == Len(m.columns) # Len(features.columns)
\* the same number under other names raises in scikit-learn >= 1.2 and only
\* warns before
FeatureNamesDiffer(m, features) == m.columns # features.columns

\* predict_proba(X)[:, 1] needs a second class
HasFraudColumn(m) == Cardinality(m.classes) >= 2

NotTrained == "ValueError: Model not trained yet!"

\* the exceptions predict_fraud may raise on a detector whose model is m
PredictErrors(m, features) ==
    IF m = None THEN {NotTrained}
    ELSE IF features.n = 0 \/ FeatureCountDiffers(m[1], features) THEN {"ValueError"}
    ELSE (IF FeatureNamesDiffer(m[1], features) THEN {"ValueError"} ELSE {})
         \cup (IF HasFraudColumn(m[1]) THEN {} ELSE {"IndexError"})

\* a predict_fraud that goes on without a model
PredictReturns_withoutModel(m, features) ==
    /\ features.n > 0
    /\ \/ m = None
       \/ ~FeatureCountDiffers(m[1], features) /\ HasFraudColumn(m[1])

\* predict_fraud may return predictions and probabilities
PredictReturns(m, features) ==
    /\ m # None
    /\ features.n > 0
    /\ ~FeatureCountDiffers(m[1], features)
    /\ HasFraudColumn(m[1])

(***************************************************************************)
(* generate_report.                                                        *)
(***************************************************************************)
\* a cut whose labels are given in the reverse order
cut_reversed(p) ==
    IF p > 0 /\ p <= 30 THEN Some("High")
    ELSE IF p > 30 /\ p <= 70 THEN Some("Medium")
    ELSE IF p > 70 /\ p <= 100 THEN Some("Low")
    ELSE NaN

\* pd.cut(p, bins=[0, 0.3, 0.7, 1.0], labels=['Low', 'Medium', 'High']):
\* right-closed intervals (0, 0.3], (0.3, 0.7], (0.7, 1.0]; NaN outside
cut(p) ==
    IF p > 0 /\ p <= 30 THEN Some("Low")
    ELSE IF p > 30 /\ p <= 70 THEN Some("Medium")
    ELSE IF p > 70 /\ p <= 100 THEN Some("High")
    ELSE NaN

\* round(a / b, 0) on integers, ties to the even neighbour
RoundHalfEven(a, b) ==
    LET q == a \div b
        r == a % b
    IN  IF 2 * r < b THEN q
        ELSE IF 2 * r > b THEN q + 1
        ELSE IF q % 2 = 0 THEN q ELSE q + 1

\* a rate cut off after two decimals instead of rounded
FraudRate_truncated(fraud_detected, total_transactions) ==
    (fraud_detected * 100 * 100) \div total_transactions

\* round(fraud_detected / total_transactions * 100, 2), in hundredths of a percent
FraudRate(fraud_detected, total_transactions) ==
    RoundHalfEven(fraud_detected * 100 * 100, total_transactions)

ReportTable(t, preds, probs) ==
    [n    |-> t.n,
     data |-> [c \in Cols(t) \cup {"predicted_fraud", "fraud_probability", "risk_level"} |->
                 IF c = "predicted_fraud" THEN [i \in 1..t.n |-> Some(preds[i])]
                 ELSE IF c = "fraud_probability" THEN [i \in 1..t.n |-> Some(probs[i])]
                 ELSE IF c = "risk_level" THEN [i \in 1..t.n |-> cut(probs[i])]
                 ELSE t.data[c]]]

TierCount(report, tier) ==
    Cardinality({i \in 1..report.n : report.data["risk_level"][i] = Some(tier)})

\* a summary that counts the rows held out for evaluation
Summary_testRows(report, preds) ==
    [total_transactions       |-> TestSize(report.n),
     fraud_detected           |-> SumSeq(preds),
     fraud_rate_percent       |-> FraudRate(SumSeq(preds), report.n),
     high_risk_transactions   |-> TierCount(report, "High"),
     medium_risk_transactions |-> TierCount(report, "Medium"),
     low_risk_transactions    |-> TierCount(report, "Low")]

Summary(report, preds) ==
    [total_transactions       |-> report.n,
     fraud_detected           |-> SumSeq(preds),
     fraud_rate_percent       |-> FraudRate(SumSeq(preds), report.n),
     high_risk_transactions   |-> TierCount(report, "High"),
     medium_risk_transactions |-> TierCount(report, "Medium"),
     low_risk_transactions    |-> TierCount(report, "Low")]

(***************************************************************************)
(* The inputs.                                                             *)
(***************************************************************************)
AmountColumn(n) == [i \in 1..n |-> IF i % 2 = 1 THEN Some(10) ELSE Some(40)]
TimestampColumn(n) ==
    [i \in 1..n |-> IF i % 2 = 1 THEN Some(MondayMorning) ELSE Some(SaturdayNight)]
RiskColumn(n) == [i \in 1..n |-> IF i % 2 = 1 THEN Some("low") ELSE Some("high")]

\* the CSV files given to main have n rows, every cell present, any schema
\* of at least one column (read_csv fails on a file without a header) and
\* any labelling
PipelineCSV(n, a, t, r, tt, f) == MkTable(n, a, t, r, tt, f)

\* the table generate_test_csv.py writes to data/raw: GeneratedRows rows of
\* which the last GeneratedFrauds are fraudulent with a high amount (the
\* generator's shuffle is left out: no step depends on the order of the rows)
GeneratedRows == 10
GeneratedFrauds == 2

GeneratedCSV ==
    LET normal == GeneratedRows - GeneratedFrauds
    IN  MkTable(GeneratedRows,
                Some([i \in 1..GeneratedRows |->
                        IF i > normal THEN Some(500) ELSE AmountColumn(normal)[i]]),
                None, None, None,
                Some([i \in 1..GeneratedRows |-> IF i > normal THEN Some(1) ELSE Some(0)]))

\* the cells of the tables given to preprocess_data alone: missing, valid
\* or unrecognised
PreAmounts == {NaN, Some(10), Some(40)}
PreTimestamps == {NaN, Some(MondayMorning), Some(Unparseable)}
PreRiskLevels == {NaN, Some("high"), Some("urgent")}

\* the probabilities given to generate_report alone, in hundredths
ReportProbs == {0, 10, 30, 50, 70, 90, 100}

(***************************************************************************)
(* main, one action per step.                                              *)
(***************************************************************************)
\* no execution of main yet, and nothing on disk
PipelineIdle ==
    /\ pc = "idle"
    /\ runs = 0
    /\ df = None
    /\ X = None
    /\ y = None
    /\ model = None
    /\ feature_columns = <<"amount">>
    /\ predictions = None
    /\ probabilities = None
    /\ summary = None
    /\ df_report = None
    /\ error = ""
    /\ model_file = None
    /\ trace = <<>>
    /\ df_read = None
    /\ detailed_file = None
    /\ summary_file = None
    /\ root_file = None

Init ==
    /\ PipelineIdle
    /\ WatcherOff
    /\ DashboardOff
    /\ ToolsOff

\* an exception no caller catches ends the run
Raise(exception) ==
    /\ pc' = "crashed"
    /\ error' = exception
    /\ trace' = trace

\* a main that goes from the features straight to the prediction
Return_skipsTraining(step, next) ==
    /\ pc' = IF next = "train_model" THEN "predict_fraud" ELSE next
    /\ error' = error
    /\ trace' = Append(trace, step)

\* a step of main returns and main goes on to the next
Return(step, next) ==
    /\ pc' = next
    /\ error' = error
    /\ trace' = Append(trace, step)

\* main up to the construction of the detector; FraudDetector.__init__
NewRun ==
    /\ pc \in {"idle", "done", "crashed"}
    /\ runs < MaxRuns
    /\ runs' = runs + 1
    /\ pc' = "load_data"
    /\ model' = None
    /\ feature_columns' = <<"amount">>
    /\ df' = None
    /\ X' = None
    /\ y' = None
    /\ predictions' = None
    /\ probabilities' = None
    /\ summary' = None
    /\ df_report' = None
    /\ error' = ""
    /\ trace' = <<>>
    /\ df_read' = None
    /\ UNCHANGED <<model_file, detailed_file, summary_file, root_file>>
    /\ UNCHANGED <<watcher_vars, dashboard_vars, tool_vars>>

\* load_data returns the table read
LoadData ==
    /\ pc = "load_data"
    /\ \E n \in 0..MaxRows :
       \E a \in {None, Some(AmountColumn(n))}, t \in {None, Some(TimestampColumn(n))},
          r \in {None, Some(RiskColumn(n))}, tt \in {None, Some(TypeColumn(n))},
          f \in OptColumns(n, {Some(0), Some(1)}) :
          /\ Cols(PipelineCSV(n, a, t, r, tt, f)) # {}
          /\ df' = Some(PipelineCSV(n, a, t, r, tt, f))
    /\ df_read' = df'
    /\ Return("load_data", "preprocess")
    /\ UNCHANGED <<runs, X, y, model, feature_columns, predictions, probabilities,
                   summary, df_report, model_file, detailed_file, summary_file,
                   root_file>>
    /\ UNCHANGED <<watcher_vars, dashboard_vars, tool_vars>>

\* load_data returns the generated test table
LoadGeneratedData ==
    /\ pc = "load_data"
    /\ df' = Some(GeneratedCSV)
    /\ df_read' = df'
    /\ Return("load_data", "preprocess")
    /\ UNCHANGED <<runs, X, y, model, feature_columns, predictions, probabilities,
                   summary, df_report, model_file, detailed_file, summary_file,
                   root_file>>
    /\ UNCHANGED <<watcher_vars, dashboard_vars, tool_vars>>

\* a load_data that lets the exception of the failed read through
LoadDataFails_raises ==
    /\ pc = "load_data"
    /\ df' = None
    /\ df_read' = None
    /\ Raise("FileNotFoundError")
    /\ UNCHANGED <<runs, X, y, model, feature_columns, predictions, probabilities,
                   summary, df_report, model_file, detailed_file, summary_file,
                   root_file>>
    /\ UNCHANGED <<watcher_vars, dashboard_vars, tool_vars>>

\* load_data catches the failed read and returns None; main returns
LoadDataFails ==
    /\ pc = "load_data"
    /\ df' = None
    /\ df_read' = None
    /\ Return("load_data", "done")
    /\ UNCHANGED <<runs, X, y, model, feature_columns, predictions, probabilities,
                   summary, df_report, model_file, detailed_file, summary_file,
                   root_file>>
    /\ UNCHANGED <<watcher_vars, dashboard_vars, tool_vars>>

\* preprocess_data, and main's choice between training and loading
PreprocessData ==
    /\ pc = "preprocess"
    /\ IF ~TimestampsParse(df[1])
       THEN /\ Raise("ValueError")
            /\ UNCHANGED <<df, X, y, feature_columns>>
       ELSE /\ df' = Some(ConvertTimestamps(df[1]))
            /\ X' = Some(BuildFeatures(df[1]))
            /\ y' = Target(df[1])
            /\ feature_columns' = FeatureColumns(df[1])
            /\ Return("preprocess_data",
                      IF Target(df[1]) # None THEN "train_model" ELSE "load_model")
    /\ UNCHANGED <<runs, model, predictions, probabilities, summary, df_report,
                   model_file, df_read, detailed_file, summary_file, root_file>>
    /\ UNCHANGED <<watcher_vars, dashboard_vars, tool_vars>>

TrainModel ==
    /\ pc = "train_model"
    /\ IF SplitRaises(X[1], y[1])
       THEN /\ Raise("ValueError")
            /\ UNCHANGED model
       ELSE /\ model' = Some(Fit(X[1], y[1]))
            /\ Return("train_model", "save_model")
    /\ UNCHANGED <<runs, df, X, y, feature_columns, predictions, probabilities,
                   summary, df_report, model_file, df_read, detailed_file,
                   summary_file, root_file>>
    /\ UNCHANGED <<watcher_vars, dashboard_vars, tool_vars>>

SaveModel ==
    /\ pc = "save_model"
    /\ model_file' = IF model # None THEN model ELSE model_file
    /\ Return("save_model", "predict_fraud")
    /\ UNCHANGED <<runs, df, X, y, model, feature_columns, predictions,
                   probabilities, summary, df_report, df_read, detailed_file,
                   summary_file, root_file>>
    /\ UNCHANGED <<watcher_vars, dashboard_vars, tool_vars>>

\* the process is killed while joblib.dump is writing: the file is left truncated
KilledDuringSave ==
    /\ pc = "save_model"
    /\ model # None
    /\ model_file' = Unreadable
    /\ pc' = "crashed"
    /\ error' = "killed"
    /\ UNCHANGED <<runs, df, X, y, model, feature_columns, predictions,
                   probabilities, summary, df_report, trace, df_read,
                   detailed_file, summary_file, root_file>>
    /\ UNCHANGED <<watcher_vars, dashboard_vars, tool_vars>>

\* load_model: joblib.load runs outside any try block
LoadModel ==
    /\ pc = "load_model"
    /\ IF model_file = Unreadable
       THEN /\ Raise("EOFError")
            /\ UNCHANGED model
       ELSE /\ model' = IF model_file # None THEN model_file ELSE model
            /\ Return("load_model", "predict_fraud")
    /\ UNCHANGED <<runs, df, X, y, feature_columns, predictions, probabilities,
                   summary, df_report, model_file, df_read, detailed_file,
                   summary_file, root_file>>
    /\ UNCHANGED <<watcher_vars, dashboard_vars, tool_vars>>

\* predict_fraud raises
PredictRaises ==
    /\ pc = "predict_fraud"
    /\ \E e \in PredictErrors(model, X[1]) : Raise(e)
    /\ UNCHANGED <<runs, df, X, y, model, feature_columns, predictions,
                   probabilities, summary, df_report, model_file, trace,
                   df_read, detailed_file, summary_file, root_file>>
    /\ UNCHANGED <<watcher_vars, dashboard_vars, tool_vars>>

\* predict_fraud returns one label and one probability per row
PredictFraud ==
    /\ pc = "predict_fraud"
    /\ PredictReturns(model, X[1])
    /\ \E probs \in [1..X[1].n -> PipelineProbs] :
          /\ probabilities' = Some(probs)
          /\ predictions' = Some([i \in 1..X[1].n |-> PredictLabel(probs[i])])
    /\ Return("predict_fraud", "generate_report")
    /\ UNCHANGED <<runs, df, X, y, model, feature_columns, summary, df_report,
                   model_file, df_read, detailed_file, summary_file, root_file>>
    /\ UNCHANGED <<watcher_vars, dashboard_vars, tool_vars>>

\* a generate_report that writes the JSON summary before the detailed CSV
GenerateReport_summaryFirst ==
    /\ pc = "generate_report"
    /\ IF df[1].n = 0
       THEN /\ Raise("ZeroDivisionError")
            /\ UNCHANGED <<summary, df_report, summary_file>>
       ELSE /\ df_report' = Some(ReportTable(df[1], predictions[1], probabilities[1]))
            /\ summary' = Some(Summary(ReportTable(df[1], predictions[1], probabilities[1]),
                                       predictions[1]))
            /\ summary_file' = Some(runs)
            /\ pc' = "write_summary"
            /\ UNCHANGED <<error, trace>>
    /\ UNCHANGED <<runs, df, X, y, model, feature_columns, predictions,
                   probabilities, model_file, df_read, detailed_file, root_file>>
    /\ UNCHANGED <<watcher_vars, dashboard_vars, tool_vars>>

\* generate_report up to the first write: the labelled copy, the summary
\* and the detailed CSV file
GenerateReport ==
    /\ pc = "generate_report"
    /\ IF df[1].n = 0
       THEN /\ Raise("ZeroDivisionError")
            /\ UNCHANGED <<summary, df_report, detailed_file>>
       ELSE /\ df_report' = Some(ReportTable(df[1], predictions[1], probabilities[1]))
            /\ summary' = Some(Summary(ReportTable(df[1], predictions[1], probabilities[1]),
                                       predictions[1]))
            /\ detailed_file' = Some(runs)
            /\ pc' = "write_summary"
            /\ UNCHANGED <<error, trace>>
    /\ UNCHANGED <<runs, df, X, y, model, feature_columns, predictions,
                   probabilities, model_file, df_read, summary_file, root_file>>
    /\ UNCHANGED <<watcher_vars, dashboard_vars, tool_vars>>

\* generate_report from the second write, of the JSON summary, to its return
WriteSummary ==
    /\ pc = "write_summary"
    /\ summary_file' = Some(runs)
    /\ Return("generate_report", "copy_report")
    /\ UNCHANGED <<runs, df, X, y, model, feature_columns, predictions,
                   probabilities, summary, df_report, model_file, df_read,
                   detailed_file, root_file>>
    /\ UNCHANGED <<watcher_vars, dashboard_vars, tool_vars>>

\* the process is killed after the detailed CSV is written and before the
\* summary is
KilledBetweenWrites ==
    /\ pc = "write_summary"
    /\ pc' = "crashed"
    /\ error' = "killed"
    /\ UNCHANGED <<runs, df, X, y, model, feature_columns, predictions,
                   probabilities, summary, df_report, model_file, trace, df_read,
                   detailed_file, summary_file, root_file>>
    /\ UNCHANGED <<watcher_vars, dashboard_vars, tool_vars>>

\* a main that leaves the copy at the repository root as it was
CopyReport_skipped ==
    /\ pc = "copy_report"
    /\ root_file' = root_file
    /\ pc' = "done"
    /\ UNCHANGED <<runs, df, X, y, model, feature_columns, predictions,
                   probabilities, summary, df_report, error, model_file, trace,
                   df_read, detailed_file, summary_file>>
    /\ UNCHANGED <<watcher_vars, dashboard_vars, tool_vars>>

\* main copies the summary to the repository root and returns it
CopyReport ==
    /\ pc = "copy_report"
    /\ root_file' = IF summary_file # None THEN summary_file ELSE root_file
    /\ pc' = "done"
    /\ UNCHANGED <<runs, df, X, y, model, feature_columns, predictions,
                   probabilities, summary, df_report, error, model_file, trace,
                   df_read, detailed_file, summary_file>>
    /\ UNCHANGED <<watcher_vars, dashboard_vars, tool_vars>>

Next ==
    \/ NewRun
    \/ LoadData
    \/ LoadGeneratedData
    \/ LoadDataFails
    \/ PreprocessData
    \/ TrainModel
    \/ SaveModel
    \/ KilledDuringSave
    \/ LoadModel
    \/ PredictRaises
    \/ PredictFraud
    \/ GenerateReport
    \/ WriteSummary
    \/ KilledBetweenWrites
    \/ CopyReport

Spec == Init /\ [][Next]_vars

(***************************************************************************)
(* preprocess_data alone, on any table.                                    *)
(***************************************************************************)
InitPre ==
    /\ pc = "preprocess"
    /\ runs = 1
    /\ \E n \in 0..MaxPreRows :
       \E a \in OptColumns(n, PreAmounts), t \in OptColumns(n, PreTimestamps),
          r \in OptColumns(n, PreRiskLevels), tt \in {None, Some(TypeColumn(n))},
          f \in {None, Some([i \in 1..n |-> Some(0)])} :
          /\ Cols(MkTable(n, a, t, r, tt, f)) # {}
          /\ df = Some(MkTable(n, a, t, r, tt, f))
    /\ X = None
    /\ y = None
    /\ model = None
    /\ feature_columns = <<"amount">>
    /\ predictions = None
    /\ probabilities = None
    /\ summary = None
    /\ df_report = None
    /\ error = ""
    /\ model_file = None
    /\ trace = <<>>
    /\ df_read = df
    /\ detailed_file = None
    /\ summary_file = None
    /\ root_file = None
    /\ WatcherOff
    /\ DashboardOff
    /\ ToolsOff

NextPre == PreprocessData

SpecPre == InitPre /\ [][NextPre]_vars

(***************************************************************************)
(* generate_report alone, on any predictions and probabilities.            *)
(***************************************************************************)
InitReport ==
    /\ pc = "generate_report"
    /\ runs = 1
    /\ \E n \in 0..MaxReportRows :
          /\ df = Some(MkTable(n, Some(AmountColumn(n)), None, None, None, None))
          /\ \E preds \in [1..n -> {0, 1}] : predictions = Some(preds)
          /\ \E probs \in [1..n -> ReportProbs] : probabilities = Some(probs)
    /\ X = None
    /\ y = None
    /\ model = None
    /\ feature_columns = <<"amount">>
    /\ summary = None
    /\ df_report = None
    /\ error = ""
    /\ model_file = None
    /\ trace = <<>>
    /\ df_read = df
    /\ detailed_file = None
    /\ summary_file = None
    /\ root_file = None
    /\ WatcherOff
    /\ DashboardOff
    /\ ToolsOff

NextReport ==
    \/ GenerateReport
    \/ WriteSummary
    \/ KilledBetweenWrites

SpecReport == InitReport /\ [][NextReport]_vars

(***************************************************************************)
(* The file watcher of src/tools/file_monitor.py: one Observer with one    *)
(* CSVFileHandler on data/raw.  The observer thread takes the events of    *)
(* the queue one at a time and calls the handler for each; the handler     *)
(* runs the detector as a subprocess and waits for it.  The detector is    *)
(* started without a file argument, so it reads the CSV of data/raw with   *)
(* the latest modification time.                                           *)
(***************************************************************************)
\* creation events waiting in the observer's queue
MaxEvents == 3

FileNames == {"a.csv", "b.csv", "notes.txt"}
DirectoryNames == {"old.csv"}

\* str.endswith('.csv')
endswith_csv(name) == name \in {"a.csv", "b.csv", "old.csv"}

CreatedEvent(name, isdir) == [src_path |-> name, is_directory |-> isdir]

\* data/raw is kept in the order of modification times, the latest last
Touch(dir, entry) ==
    Append(SelectSeq(dir, LAMBDA e : e.src_path # entry.src_path), entry)

\* main's choice of the data path when sys.argv holds no file
LatestCsv(dir) ==
    LET csv_files == SelectSeq(dir, LAMBDA e : endswith_csv(e.src_path))
    IN  IF csv_files # <<>> THEN csv_files[Len(csv_files)]
        ELSE CreatedEvent("banking_dataset.csv", FALSE)

Occurrences(s, v) == Cardinality({i \in DOMAIN s : s[i] = v})

InProgress == {d \in detections : d.returncode = None}

\* a file or a directory appears in data/raw and the observer queues the event
FileCreated ==
    /\ Len(event_queue) < MaxEvents
    /\ \E e \in {CreatedEvent(n, FALSE) : n \in FileNames}
              \cup {CreatedEvent(n, TRUE) : n \in DirectoryNames} :
          /\ raw_dir' = Touch(raw_dir, e)
          /\ event_queue' = Append(event_queue, e)
    /\ UNCHANGED <<processed_files, handler, detections, started, watcher_report,
                   git_log,
                   failed_files>>
    /\ UNCHANGED <<pipeline_vars, dashboard_vars, tool_vars>>

\* on_created for an event that starts nothing: a directory, a name that does
\* not end in .csv, or a name already in processed_files
OnCreatedIgnores ==
    /\ handler = None
    /\ event_queue # <<>>
    /\ LET event == Head(event_queue)
       IN  ~(/\ ~event.is_directory
             /\ endswith_csv(event.src_path)
             /\ event.src_path \notin processed_files)
    /\ event_queue' = Tail(event_queue)
    /\ UNCHANGED <<processed_files, handler, detections, started, raw_dir,
                   watcher_report, git_log,
                   failed_files>>
    /\ UNCHANGED <<pipeline_vars, dashboard_vars, tool_vars>>

\* a handler that starts the detector and does not wait for it
OnCreated_popen ==
    /\ handler = None
    /\ event_queue # <<>>
    /\ LET event == Head(event_queue)
       IN  /\ ~event.is_directory
           /\ endswith_csv(event.src_path)
           /\ event.src_path \notin processed_files
           /\ processed_files' = processed_files \cup {event.src_path}
           /\ started' = Append(started, event.src_path)
           /\ detections' = detections \cup
                  {[id |-> Len(started) + 1, input |-> None, returncode |-> None]}
           /\ handler' = None
    /\ event_queue' = Tail(event_queue)
    /\ UNCHANGED <<raw_dir, watcher_report, git_log,
                   failed_files>>
    /\ UNCHANGED <<pipeline_vars, dashboard_vars, tool_vars>>

\* a handler that keeps no memory of the names it has processed
OnCreated_forgets ==
    /\ handler = None
    /\ event_queue # <<>>
    /\ LET event == Head(event_queue)
       IN  /\ ~event.is_directory
           /\ endswith_csv(event.src_path)
           /\ processed_files' = processed_files
           /\ started' = Append(started, event.src_path)
           /\ detections' = detections \cup
                  {[id |-> Len(started) + 1, input |-> None, returncode |-> None]}
           /\ handler' = Some([file |-> event.src_path, id |-> Len(started) + 1])
    /\ event_queue' = Tail(event_queue)
    /\ UNCHANGED <<raw_dir, watcher_report, git_log,
                   failed_files>>
    /\ UNCHANGED <<pipeline_vars, dashboard_vars, tool_vars>>

\* on_created and process_new_csv up to the call of subprocess.run, in which
\* the observer thread waits until the detector exits
OnCreated ==
    /\ handler = None
    /\ event_queue # <<>>
    /\ LET event == Head(event_queue)
       IN  /\ ~event.is_directory
           /\ endswith_csv(event.src_path)
           /\ event.src_path \notin processed_files
           /\ processed_files' = processed_files \cup {event.src_path}
           /\ started' = Append(started, event.src_path)
           /\ detections' = detections \cup
                  {[id |-> Len(started) + 1, input |-> None, returncode |-> None]}
           /\ handler' = Some([file |-> event.src_path, id |-> Len(started) + 1])
    /\ event_queue' = Tail(event_queue)
    /\ UNCHANGED <<raw_dir, watcher_report, git_log,
                   failed_files>>
    /\ UNCHANGED <<pipeline_vars, dashboard_vars, tool_vars>>

\* subprocess.run cannot start the detector and raises; process_new_csv
\* catches the exception and returns
OnCreatedCannotStart ==
    /\ handler = None
    /\ event_queue # <<>>
    /\ LET event == Head(event_queue)
       IN  /\ ~event.is_directory
           /\ endswith_csv(event.src_path)
           /\ event.src_path \notin processed_files
           /\ processed_files' = processed_files \cup {event.src_path}
    /\ event_queue' = Tail(event_queue)
    /\ failed_files' = failed_files \cup {Head(event_queue).src_path}
    /\ UNCHANGED <<handler, detections, started, raw_dir, watcher_report, git_log>>
    /\ UNCHANGED <<pipeline_vars, dashboard_vars, tool_vars>>

\* the detector chooses its input: the latest CSV of data/raw at that moment
DetectorPicksInput ==
    /\ \E d \in detections :
          /\ d.input = None /\ d.returncode = None
          /\ detections' = (detections \ {d})
                             \cup {[d EXCEPT !.input = Some(LatestCsv(raw_dir))]}
    /\ UNCHANGED <<processed_files, event_queue, handler, started, raw_dir,
                   watcher_report, git_log,
                   failed_files>>
    /\ UNCHANGED <<pipeline_vars, dashboard_vars, tool_vars>>

\* the detector exits: with code 0 after writing its report, with code 0 and
\* no report when load_data returned None, or with code 1 on an exception
DetectorExits ==
    /\ \E d \in detections :
          /\ d.input # None /\ d.returncode = None
          /\ \E code \in {0, 1}, wrote \in BOOLEAN :
                /\ wrote => (code = 0 /\ ~d.input[1].is_directory
                                      /\ d.input[1] \in Range(raw_dir))
                /\ code = 1 => d.input[1] \in Range(raw_dir)
                /\ detections' = (detections \ {d})
                                   \cup {[d EXCEPT !.returncode = Some(code)]}
                /\ watcher_report' = IF wrote THEN Some(d.input[1].src_path)
                                      ELSE watcher_report
    /\ UNCHANGED <<processed_files, event_queue, handler, started, raw_dir, git_log,
                   failed_files>>
    /\ UNCHANGED <<pipeline_vars, dashboard_vars, tool_vars>>

\* extract_fraud_count: the report on disk, whichever input it describes
extract_fraud_count == watcher_report

\* auto_commit_and_push: git add, git commit, and git push when the commit
\* returned 0; any exception is caught.  The entry logged for a file names
\* the count of the commit message and how far the three commands got.
auto_commit_and_push(file_name, fraud_count, add_ok, commit_ok, push_ok) ==
    [file      |-> file_name,
     count     |-> fraud_count,
     committed |-> add_ok /\ commit_ok,
     push      |-> IF add_ok /\ commit_ok
                   THEN (IF push_ok THEN "pushed" ELSE "failed")
                   ELSE "not attempted"]

\* a process_new_csv that commits whatever the exit code of the detector
ProcessReturns_commitsAlways ==
    /\ handler # None
    /\ \E d \in detections :
          /\ d.id = handler[1].id
          /\ d.returncode # None
          /\ detections' = detections \ {d}
          /\ \E add_ok \in BOOLEAN, commit_ok \in BOOLEAN, push_ok \in BOOLEAN :
                git_log' = Append(git_log,
                                  auto_commit_and_push(handler[1].file, extract_fraud_count,
                                                       add_ok, commit_ok, push_ok))
          /\ failed_files' = IF d.returncode = Some(0) THEN failed_files
                              ELSE failed_files \cup {handler[1].file}
    /\ handler' = None
    /\ UNCHANGED <<processed_files, event_queue, started, raw_dir, watcher_report>>
    /\ UNCHANGED <<pipeline_vars, dashboard_vars, tool_vars>>

\* a process_new_csv that lets a file whose run failed be processed again
ProcessReturns_retriesFailed ==
    /\ handler # None
    /\ \E d \in detections :
          /\ d.id = handler[1].id
          /\ d.returncode # None
          /\ detections' = detections \ {d}
          /\ IF d.returncode = Some(0)
             THEN /\ \E add_ok \in BOOLEAN, commit_ok \in BOOLEAN, push_ok \in BOOLEAN :
                        git_log' = Append(git_log,
                                          auto_commit_and_push(handler[1].file,
                                                               extract_fraud_count,
                                                               add_ok, commit_ok, push_ok))
                  /\ UNCHANGED <<failed_files, processed_files>>
             ELSE /\ git_log' = git_log
                  /\ failed_files' = failed_files \cup {handler[1].file}
                  /\ processed_files' = processed_files \ {handler[1].file}
    /\ handler' = None
    /\ UNCHANGED <<event_queue, started, raw_dir, watcher_report>>
    /\ UNCHANGED <<pipeline_vars, dashboard_vars, tool_vars>>

\* process_new_csv after subprocess.run returned: on exit code 0 the fraud
\* count is read and auto_commit_and_push is called; on another exit code
\* the failure is printed
ProcessReturns ==
    /\ handler # None
    /\ \E d \in detections :
          /\ d.id = handler[1].id
          /\ d.returncode # None
          /\ detections' = detections \ {d}
          /\ IF d.returncode = Some(0)
             THEN /\ \E add_ok \in BOOLEAN, commit_ok \in BOOLEAN, push_ok \in BOOLEAN :
                        git_log' = Append(git_log,
                                          auto_commit_and_push(handler[1].file,
                                                               extract_fraud_count,
                                                               add_ok, commit_ok, push_ok))
                  /\ failed_files' = failed_files
             ELSE /\ git_log' = git_log
                  /\ failed_files' = failed_files \cup {handler[1].file}
    /\ handler' = None
    /\ UNCHANGED <<processed_files, event_queue, started, raw_dir, watcher_report>>
    /\ UNCHANGED <<pipeline_vars, dashboard_vars, tool_vars>>

InitWatch == Init

NextWatch ==
    \/ FileCreated
    \/ OnCreatedIgnores
    \/ OnCreated
    \/ OnCreatedCannotStart
    \/ DetectorPicksInput
    \/ DetectorExits
    \/ ProcessReturns

SpecWatch == InitWatch /\ [][NextWatch]_vars

(***************************************************************************)
(* The dashboard of src/dashboard/app.py: the GET endpoints over the       *)
(* FraudDataManager.  A transaction is modelled by its id, amount, risk    *)
(* score (in tenths) and risk level; rates are in tenths of a percent.     *)
(* The fields of a transaction that hold the time of the request or text   *)
(* derived from the index alone are left out.                              *)
(* data_raw lists the CSV files of data/raw, the latest first.             *)
(***************************************************************************)
\* rows of a CSV file under data/raw
MaxDashRows == 2
\* fraud_detected of the fraud report
MaxFraudDetected == 2

BankingName == "banking_transactions_train.csv"

CsvFile(name, labelled, has_id, has_merchant, rows) ==
    [name |-> name, labelled |-> labelled, has_id |-> has_id,
     has_merchant |-> has_merchant, rows |-> rows]

Row(amount, is_fraud) == [amount |-> amount, is_fraud |-> is_fraud]

\* f'TXN{n:03d}'
TxnFormat(n) == <<"TXN000", "TXN001", "TXN002", "TXN003", "TXN004", "TXN005">>[n + 1]

\* the transaction_id column of a file that has one
transaction_id(i) == <<"ID1", "ID2", "ID3", "ID4">>[i]

RiskLevel(risk_score) ==
    IF risk_score >= 800 THEN "high"
    ELSE IF risk_score >= 600 THEN "medium"
    ELSE "low"

Min(a, b) == IF a < b THEN a ELSE b

\* load_fraud_report
load_fraud_report == fraud_report_json

\* load_banking_dataset: None when the file is missing or has no is_fraud column
load_banking_dataset ==
    LET found == SelectSeq(data_raw, LAMBDA f : f.name = BankingName)
    IN  IF found = <<>> \/ ~found[1].labelled THEN None
        ELSE LET rows  == found[1].rows
                 total == Len(rows)
                 fraud == Len(SelectSeq(rows, LAMBDA r : r.is_fraud = 1))
             IN  Some([total_transactions      |-> total,
                       fraud_detected          |-> fraud,
                       legitimate_transactions |-> total - fraud,
                       fraud_rate_percent      |->
                           IF total > 0 THEN RoundHalfEven(fraud * 10000, total) ELSE 0])

\* process_fraud_transactions for row i of a file
ProcessRow(file, i) ==
    LET amount     == file.rows[i].amount
        risk_score == Min(950, 500 + amount \div 20)
    IN  [id        |-> IF file.has_id THEN transaction_id(i) ELSE TxnFormat(i - 1),
         amount    |-> amount,
         riskScore |-> risk_score,
         riskLevel |-> RiskLevel(risk_score)]

\* analyze_csv_file: the rows marked as fraud, or picked by the amount when
\* the file has no is_fraud column; no transaction when the lookup of the
\* merchant column fails
analyze_csv_file(file) ==
    LET picked == {i \in 1..Len(file.rows) :
                      IF file.labelled THEN file.rows[i].is_fraud = 1
                      ELSE file.has_merchant /\ file.rows[i].amount > 5000}
        RECURSIVE Collect(_)
        Collect(i) == IF i > Len(file.rows) THEN <<>>
                      ELSE (IF i \in picked THEN <<ProcessRow(file, i)>> ELSE <<>>)
                           \o Collect(i + 1)
    IN  Collect(1)

RECURSIVE AnalyzeAll(_)
AnalyzeAll(files) ==
    IF files = <<>> THEN <<>>
    ELSE analyze_csv_file(Head(files)) \o AnalyzeAll(Tail(files))

\* get_latest_csv_files(limit=5)
get_latest_csv_files == SubSeq(data_raw, 1, Min(5, Len(data_raw)))

\* the values random.uniform may draw in generate_sample_transaction: the
\* offset of the amount in [-1000, 2000] and of the risk score in [0, 25]
RandomDraws == {[amount |-> -1000, risk |-> 0], [amount |-> 2000, risk |-> 250]}

SampleAmounts == <<5000, 8500, 12000, 15000, 20000>>

\* generate_sample_transaction(index), given what random.uniform draws
generate_sample_transaction(index, draw) ==
    [id        |-> TxnFormat(index + 1),
     amount    |-> SampleAmounts[(index % 5) + 1] + draw.amount,
     riskScore |-> 700 + draw.risk,
     riskLevel |-> RiskLevel(700 + draw.risk)]

CountLevel(transactions, level) ==
    Len(SelectSeq(transactions, LAMBDA t : t.riskLevel = level))

\* the statistics of get_dashboard_data for a list of transactions
Statistics(transactions) ==
    LET banking_stats == load_banking_dataset
        fraud_report  == load_fraud_report
        total == IF banking_stats # None THEN banking_stats[1].total_transactions
                 ELSE IF fraud_report # None THEN fraud_report[1].total_transactions
                 ELSE 100
        fraud == IF banking_stats # None THEN banking_stats[1].fraud_detected
                 ELSE Len(transactions)
        rate  == IF banking_stats # None
                 THEN RoundHalfEven(banking_stats[1].fraud_rate_percent, 10)
                 ELSE IF total > 0 THEN RoundHalfEven(fraud * 1000, total) ELSE 0
    IN  [totalTransactions |-> total,
         fraudDetected     |-> fraud,
         fraudRate         |-> rate,
         highRiskCount     |-> CountLevel(transactions, "high"),
         mediumRiskCount   |-> CountLevel(transactions, "medium"),
         lowRiskCount      |-> CountLevel(transactions, "low")]

\* the results get_dashboard_data may return in the current state
DashboardData ==
    LET fraud_report == load_fraud_report
        lists == IF fraud_report # None
                 THEN {[i \in 1..fraud_report[1].fraud_detected |->
                           generate_sample_transaction(i - 1, draws[i])] :
                       draws \in [1..fraud_report[1].fraud_detected -> RandomDraws]}
                 ELSE {AnalyzeAll(get_latest_csv_files)}
    IN  {[transactions |-> l, statistics |-> Statistics(l),
          banking_dataset_info |-> load_banking_dataset] : l \in lists}

Respond(endpoint, transaction_id_arg, status, body) ==
    response' = Some([endpoint |-> endpoint, transaction_id |-> transaction_id_arg,
                      status |-> status, body |-> body])

\* a get_dashboard_data that keeps its result in the manager's cache
GetFraudData_caching ==
    /\ \E data \in DashboardData :
          /\ Respond("/api/fraud-data", None, 200, data)
          /\ cache' = [cache EXCEPT !.fraud_data = data.transactions]
    /\ UNCHANGED <<fraud_report_json, data_raw, listed>>
    /\ UNCHANGED <<pipeline_vars, watcher_vars, tool_vars>>

\* GET /api/fraud-data
GetFraudData ==
    /\ \E data \in DashboardData : Respond("/api/fraud-data", None, 200, data)
    /\ UNCHANGED <<fraud_report_json, data_raw, cache, listed>>
    /\ UNCHANGED <<pipeline_vars, watcher_vars, tool_vars>>

\* GET /api/statistics
GetStatistics ==
    /\ \E data \in DashboardData : Respond("/api/statistics", None, 200, data.statistics)
    /\ UNCHANGED <<fraud_report_json, data_raw, cache, listed>>
    /\ UNCHANGED <<pipeline_vars, watcher_vars, tool_vars>>

\* GET /api/transactions
GetTransactions ==
    /\ \E data \in DashboardData :
          /\ Respond("/api/transactions", None, 200, data.transactions)
          /\ listed' = Some(data.transactions)
    /\ UNCHANGED <<fraud_report_json, data_raw, cache>>
    /\ UNCHANGED <<pipeline_vars, watcher_vars, tool_vars>>

RequestIds == {"TXN000", "TXN001", "TXN002", "ID1", "ID2", "missing"}

\* GET /api/transaction/<transaction_id>: the first transaction with that id
GetTransactionDetails ==
    /\ \E transaction_id_arg \in RequestIds, data \in DashboardData :
          LET found == SelectSeq(data.transactions,
                                 LAMBDA t : t.id = transaction_id_arg)
          IN  IF found # <<>>
              THEN Respond("/api/transaction/<transaction_id>",
                           Some(transaction_id_arg), 200, found[1])
              ELSE Respond("/api/transaction/<transaction_id>",
                           Some(transaction_id_arg), 404, "Transaction not found")
    /\ UNCHANGED <<fraud_report_json, data_raw, cache, listed>>
    /\ UNCHANGED <<pipeline_vars, watcher_vars, tool_vars>>

\* GET /api/health
HealthCheck ==
    /\ Respond("/api/health", None, 200, "healthy")
    /\ UNCHANGED <<fraud_report_json, data_raw, cache, listed>>
    /\ UNCHANGED <<pipeline_vars, watcher_vars, tool_vars>>

DashAmounts == {1000, 6000}

\* the files the dashboard is started on.  With a report on disk
\* get_dashboard_data reads no CSV file but the banking one, so a single
\* batch file stands for all of them there.
InitDash ==
    /\ PipelineIdle
    /\ WatcherOff
    /\ fraud_report_json \in
          {None} \cup {Some([fraud_detected |-> k, total_transactions |-> GeneratedRows]) :
                          k \in 0..MaxFraudDetected}
    /\ \E banking \in {<<>>,
                       <<CsvFile(BankingName, FALSE, FALSE, FALSE, <<Row(1000, 0)>>)>>,
                       <<CsvFile(BankingName, TRUE, FALSE, FALSE,
                                 <<Row(1000, 0), Row(6000, 1)>>)>>,
                       <<CsvFile(BankingName, TRUE, FALSE, FALSE,
                                 <<Row(1000, 0), Row(1000, 0), Row(6000, 1)>>)>>} :
       \E n \in 0..MaxDashRows, labelled \in BOOLEAN, has_id \in BOOLEAN,
          has_merchant \in BOOLEAN, present \in BOOLEAN :
       \E amounts \in [1..n -> DashAmounts], frauds \in [1..n -> {0, 1}] :
          /\ ~labelled => \A i \in 1..n : frauds[i] = 0
          /\ labelled => ~has_merchant
          /\ ~present => (n = 0 /\ ~labelled /\ ~has_id /\ ~has_merchant)
          /\ (fraud_report_json # None /\ present) =>
                (n = 1 /\ labelled /\ ~has_id /\ amounts[1] = 6000 /\ frauds[1] = 1)
          /\ data_raw = (IF present
                         THEN <<CsvFile("batch.csv", labelled, has_id, has_merchant,
                                        [i \in 1..n |-> Row(amounts[i], frauds[i])])>>
                         ELSE <<>>) \o banking
    /\ cache = NewCache
    /\ response = None
    /\ listed = None
    /\ ToolsOff

NextDash ==
    \/ GetFraudData
    \/ GetStatistics
    \/ GetTransactions
    \/ GetTransactionDetails
    \/ HealthCheck

SpecDash == InitDash /\ [][NextDash]_vars

(***************************************************************************)
(* The alert function of src/deploy/aws/lambda_fraud_email.py.  The event  *)
(* is the JSON payload of the invocation: a dict with the keys the caller  *)
(* chose, or a value that is no dict.  A Python value is written as <<>>   *)
(* for a key that is missing, <<n>> for an int, Str(s) for a string and    *)
(* PyNone for None.                                                        *)
(***************************************************************************)
Missing == <<>>
Str(s) == <<"str", s>>
PyNone == <<"None", "None", "None">>
IsInt(v) == Len(v) = 1
IsStr(v) == Len(v) = 2

\* dict.get(key, default) and os.environ.get(key, default)
get(value, default) == IF value = Missing THEN default ELSE value

\* the message handed to ses_client.send_email
Email(priority, alert_type, to) ==
    [priority |-> priority, alert_type |-> alert_type, to |-> to]

\* the response of the except branch
Failed(exception) ==
    [statusCode |-> 500,
     body |-> [error |-> "Failed to send fraud alert email", details |-> exception],
     sent |-> <<>>]

\* a handler that reports success whatever SES answered
lambda_handler_alwaysOk(ev, env, accepts) ==
    LET fraud_count     == get(ev.fraud_count, <<0>>)
        recipient_email == get(ev.email_recipient, get(env.FRAUD_ALERT_EMAIL, PyNone))
    IN  IF ev.kind # "dict" \/ ~IsInt(fraud_count)
        THEN Failed("TypeError")
        ELSE [statusCode |-> 200,
              body |-> [message    |-> "Fraud alert email sent successfully",
                        fraudCount |-> fraud_count,
                        recipient  |-> recipient_email],
              sent |-> IF accepts /\ IsStr(recipient_email)
                       THEN <<Email(IF fraud_count[1] > 0 THEN "HIGH" ELSE "NORMAL",
                                    IF fraud_count[1] > 0 THEN "FRAUD DETECTED"
                                    ELSE "SYSTEM HEALTHY", recipient_email)>>
                       ELSE <<>>]

\* lambda_handler: what it returns and the message SES accepted, for an
\* event, an environment and an SES that accepts or rejects the message
lambda_handler(ev, env, accepts) ==
    LET fraud_count     == get(ev.fraud_count, <<0>>)
        commit_sha      == get(ev.commit_sha, Str("Unknown"))
        recipient_email == get(ev.email_recipient, get(env.FRAUD_ALERT_EMAIL, PyNone))
    IN  IF ev.kind # "dict" THEN Failed("AttributeError")   \* event.get
        ELSE IF ~IsInt(fraud_count) THEN Failed("TypeError") \* fraud_count > 0
        ELSE IF ~IsStr(commit_sha) THEN Failed("TypeError")  \* commit_sha[:8]
        ELSE IF ~IsStr(recipient_email) THEN Failed("ParamValidationError")
        ELSE IF ~accepts THEN Failed("ClientError")
        ELSE LET high == fraud_count[1] > 0
             IN  [statusCode |-> 200,
                  body |-> [message    |-> "Fraud alert email sent successfully",
                            fraudCount |-> fraud_count,
                            recipient  |-> recipient_email],
                  sent |-> <<Email(IF high THEN "HIGH" ELSE "NORMAL",
                                   IF high THEN "FRAUD DETECTED" ELSE "SYSTEM HEALTHY",
                                   recipient_email)>>]

\* one invocation of the function
InvokeLambda ==
    /\ lambda_event # None
    /\ lambda_return = None
    /\ LET result == lambda_handler(lambda_event[1], environ[1], ses_accepts)
       IN  /\ lambda_return' = Some([statusCode |-> result.statusCode,
                                     body |-> result.body])
           /\ outbox' = outbox \o result.sent
    /\ UNCHANGED <<lambda_event, environ, ses_accepts>>
    /\ UNCHANGED <<generated, asserted, y_all, train_rows, test_rows, X_normal>>
    /\ UNCHANGED <<pipeline_vars, watcher_vars, dashboard_vars>>

\* the invocations: an event that is a dict with any of the keys missing or
\* of any JSON type, or no dict; FRAUD_ALERT_EMAIL set or not
InitLambda ==
    /\ PipelineIdle
    /\ WatcherOff
    /\ DashboardOff
    /\ GeneratorsOff
    /\ TrainerOff
    /\ \E kind \in {"dict", "list"},
          fraud_count \in {Missing, PyNone, Str("3"), <<-1>>, <<0>>, <<1>>, <<3>>},
          email_recipient \in {Missing, PyNone, Str("risk@bank.example")},
          commit_sha \in {Missing, <<7>>, Str("0a1b2c3d4e")} :
          /\ kind = "list" =>
                (fraud_count = Missing /\ email_recipient = Missing /\ commit_sha = Missing)
          /\ lambda_event = Some([kind |-> kind, fraud_count |-> fraud_count,
                                  email_recipient |-> email_recipient,
                                  commit_sha |-> commit_sha])
    /\ \E address \in {Missing, Str("ops@bank.example")} :
          environ = Some([FRAUD_ALERT_EMAIL |-> address])
    /\ ses_accepts \in BOOLEAN
    /\ lambda_return = None
    /\ outbox = <<>>

NextLambda == InvokeLambda

SpecLambda == InitLambda /\ [][NextLambda]_vars

(***************************************************************************)
(* The test-data generators generate_test_csv.py, generate_15_transactions *)
(* .py and generate_20_transactions.py.  Each appends the rows of a loop   *)
(* with is_fraud 0, then its hard-coded rows with is_fraud 1, shuffles the *)
(* list and returns it; main asserts the number of rows and of frauds.  A  *)
(* row is written by its is_fraud label, the column the assertions read;   *)
(* the random draws fill the other columns of the loop's rows.             *)
(***************************************************************************)
Generators ==
    {[script |-> "generate_test_csv.py", normal |-> 8, frauds |-> <<1, 1>>,
      rows_asserted |-> GeneratedRows, frauds_asserted |-> GeneratedFrauds],
     [script |-> "generate_15_transactions.py", normal |-> 12, frauds |-> <<1, 1, 1>>,
      rows_asserted |-> 15, frauds_asserted |-> 3],
     [script |-> "generate_20_transactions.py", normal |-> 15, frauds |-> <<1, 1, 1, 1, 1>>,
      rows_asserted |-> 20, frauds_asserted |-> 5]}

\* test_df['is_fraud'].sum() of a column of 0 and 1
is_fraud_sum(transactions) == Occurrences(transactions, 1)

\* the orders random.shuffle can leave a list of n labels in, k of them 1
RECURSIVE Arrangements(_, _)
Arrangements(n, k) ==
    IF n = 0 THEN (IF k = 0 THEN {<<>>} ELSE {})
    ELSE {Append(t, 0) : t \in Arrangements(n - 1, k)}
           \cup (IF k > 0 THEN {Append(t, 1) : t \in Arrangements(n - 1, k - 1)} ELSE {})

\* main of one of the scripts calls its generate function
RunGenerator ==
    /\ generated = None
    /\ \E g \in Generators :
          generated' = Some([generator |-> g, transactions |-> <<>>, pc |-> "loop"])
    /\ UNCHANGED asserted
    /\ UNCHANGED <<lambda_event, environ, ses_accepts, lambda_return, outbox>>
    /\ UNCHANGED <<y_all, train_rows, test_rows, X_normal>>
    /\ UNCHANGED <<pipeline_vars, watcher_vars, dashboard_vars>>

\* a loop that runs once more than its range
AppendNormal_oneMore ==
    /\ generated # None
    /\ generated[1].pc = "loop"
    /\ Len(generated[1].transactions) <= generated[1].generator.normal
    /\ generated' = Some([generated[1] EXCEPT
                             !.transactions = Append(generated[1].transactions, 0)])
    /\ UNCHANGED asserted
    /\ UNCHANGED <<lambda_event, environ, ses_accepts, lambda_return, outbox>>
    /\ UNCHANGED <<y_all, train_rows, test_rows, X_normal>>
    /\ UNCHANGED <<pipeline_vars, watcher_vars, dashboard_vars>>

\* one pass of the loop: a normal transaction is appended
AppendNormal ==
    /\ generated # None
    /\ generated[1].pc = "loop"
    /\ Len(generated[1].transactions) < generated[1].generator.normal
    /\ generated' = Some([generated[1] EXCEPT
                             !.transactions = Append(generated[1].transactions, 0)])
    /\ UNCHANGED asserted
    /\ UNCHANGED <<lambda_event, environ, ses_accepts, lambda_return, outbox>>
    /\ UNCHANGED <<y_all, train_rows, test_rows, X_normal>>
    /\ UNCHANGED <<pipeline_vars, watcher_vars, dashboard_vars>>

\* after the loop the hard-coded fraud transactions are appended
AppendFrauds ==
    /\ generated # None
    /\ generated[1].pc = "loop"
    /\ Len(generated[1].transactions) >= generated[1].generator.normal
    /\ generated' = Some([generated[1] EXCEPT
                             !.transactions = generated[1].transactions
                                                \o generated[1].generator.frauds,
                             !.pc = "shuffle"])
    /\ UNCHANGED asserted
    /\ UNCHANGED <<lambda_event, environ, ses_accepts, lambda_return, outbox>>
    /\ UNCHANGED <<y_all, train_rows, test_rows, X_normal>>
    /\ UNCHANGED <<pipeline_vars, watcher_vars, dashboard_vars>>

\* random.shuffle and the return of the table
Shuffle ==
    /\ generated # None
    /\ generated[1].pc = "shuffle"
    /\ \E shuffled \in Arrangements(Len(generated[1].transactions),
                                    is_fraud_sum(generated[1].transactions)) :
          generated' = Some([generated[1] EXCEPT !.transactions = shuffled,
                                                 !.pc = "returned"])
    /\ UNCHANGED asserted
    /\ UNCHANGED <<lambda_event, environ, ses_accepts, lambda_return, outbox>>
    /\ UNCHANGED <<y_all, train_rows, test_rows, X_normal>>
    /\ UNCHANGED <<pipeline_vars, watcher_vars, dashboard_vars>>

\* the two assertions of main on the table returned
MainAsserts ==
    /\ generated # None
    /\ generated[1].pc = "returned"
    /\ asserted = None
    /\ LET test_df == generated[1].transactions
           g       == generated[1].generator
       IN  asserted' = IF /\ Len(test_df) = g.rows_asserted
                          /\ is_fraud_sum(test_df) = g.frauds_asserted
                       THEN Some("passed")
                       ELSE Some("AssertionError")
    /\ UNCHANGED generated
    /\ UNCHANGED <<lambda_event, environ, ses_accepts, lambda_return, outbox>>
    /\ UNCHANGED <<y_all, train_rows, test_rows, X_normal>>
    /\ UNCHANGED <<pipeline_vars, watcher_vars, dashboard_vars>>

InitGen == Init

NextGen ==
    \/ RunGenerator
    \/ AppendNormal
    \/ AppendFrauds
    \/ Shuffle
    \/ MainAsserts

SpecGen == InitGen /\ [][NextGen]_vars

(***************************************************************************)
(* train_all_models of src/train_models.py.  A row of the data set is      *)
(* written by its index in y_all, the column is_fraud.  train_test_split   *)
(* with test_size=0.2 and stratify=y puts ceil(0.2 n) rows in the test     *)
(* set and divides each class between the two sets in proportion, the odd  *)
(* row going to the class with the larger remainder; which rows of a class *)
(* go where is the outcome of a shuffle.                                   *)
(***************************************************************************)
\* rows of the data set
MaxDataRows == 7

\* ceil(test_size * n) for test_size = 0.2
n_test(n) == (n + 4) \div 5

\* the numbers of fraud rows the stratified split may put in a training set
\* of n_train rows, for a data set of n rows with k frauds
TrainFrauds(n, k, n_train) ==
    LET rem_fraud  == (n_train * k) % n
        rem_normal == (n_train * (n - k)) % n
        floor      == (n_train * k) \div n
    IN  IF rem_fraud = 0 THEN {floor}
        ELSE IF rem_fraud > rem_normal THEN {floor + 1}
        ELSE IF rem_fraud < rem_normal THEN {floor}
        ELSE {floor, floor + 1}

\* the rows of a set of indices, in the order of the data set
RECURSIVE Ascending(_)
Ascending(rows) ==
    IF rows = {} THEN <<>>
    ELSE LET least == CHOOSE r \in rows : \A q \in rows : r <= q
         IN  <<least>> \o Ascending(rows \ {least})

\* train_test_split(X, y, test_size=0.2, random_state=42, stratify=y)
TrainTestSplit ==
    /\ y_all # <<>>
    /\ train_rows = <<>>
    /\ LET n == Len(y_all)
           k == Occurrences(y_all, 1)
       IN  \E train \in SUBSET (1..n) :
              /\ Cardinality(train) = n - n_test(n)
              /\ Cardinality({r \in train : y_all[r] = 1})
                    \in TrainFrauds(n, k, n - n_test(n))
              /\ train_rows' = Ascending(train)
              /\ test_rows' = Ascending((1..n) \ train)
    /\ UNCHANGED <<y_all, X_normal>>
    /\ UNCHANGED <<lambda_event, environ, ses_accepts, lambda_return, outbox>>
    /\ UNCHANGED <<generated, asserted>>
    /\ UNCHANGED <<pipeline_vars, watcher_vars, dashboard_vars>>

\* line 118: the rows the scaler and the two unsupervised models are fitted
\* on, from the training rows and the labels of the test rows
NormalRows(X_train, y_test) ==
    IF Len(X_train) < Len(y_test)
    THEN SelectSeq(X_train,
                   LAMBDA r : \E i \in DOMAIN X_train :
                                 X_train[i] = r /\ y_all[y_test[i]] = 0)
    ELSE X_train

\* train_supervised_models and train_unsupervised_models: the scaler, the
\* Isolation Forest and the One-Class SVM are fitted on X_normal
TrainUnsupervisedModels ==
    /\ train_rows # <<>>
    /\ X_normal = None
    /\ X_normal' = Some(NormalRows(train_rows, test_rows))
    /\ UNCHANGED <<y_all, train_rows, test_rows>>
    /\ UNCHANGED <<lambda_event, environ, ses_accepts, lambda_return, outbox>>
    /\ UNCHANGED <<generated, asserted>>
    /\ UNCHANGED <<pipeline_vars, watcher_vars, dashboard_vars>>

\* the data sets: at least two rows of each class, as the stratified split
\* requires, and at least two rows in the test set
InitTrain ==
    /\ PipelineIdle
    /\ WatcherOff
    /\ DashboardOff
    /\ LambdaOff
    /\ GeneratorsOff
    /\ \E n \in 6..MaxDataRows :
          /\ y_all \in [1..n -> {0, 1}]
          /\ Occurrences(y_all, 1) >= 2
          /\ Occurrences(y_all, 0) >= 2
    /\ train_rows = <<>>
    /\ test_rows = <<>>
    /\ X_normal = None

NextTrain ==
    \/ TrainTestSplit
    \/ TrainUnsupervisedModels

SpecTrain == InitTrain /\ [][NextTrain]_vars

(***************************************************************************)
(* The claims.                                                             *)
(***************************************************************************)
Abs(v) == IF v < 0 THEN -v ELSE v

Labelled(t) == "is_fraud" \in Cols(t)

Tier(i) == df_report[1].data["risk_level"][i]

\* C1: predict_fraud on a detector without a model raises ValueError, returns
\* no predictions and leaves model and feature_columns as they were.
C1_PredictWithoutModelRaises ==
    [][(pc = "predict_fraud" /\ model = None) =>
         /\ pc' = "crashed"
         /\ error' = NotTrained
         /\ predictions' = None
         /\ probabilities' = None
         /\ model' = model
         /\ feature_columns' = feature_columns]_vars

C1_Witness ==
    /\ pc = "crashed"
    /\ error = NotTrained
    /\ model = None
    /\ X # None
    /\ predictions = None

\* a table with an amount and the four rows a stratified split of two classes
\* needs at least
Ordinary(t) == "amount" \in Cols(t) /\ t.n >= 4

\* C2: a run on a CSV that has an is_fraud column (here with an amount and at
\* least four rows) ends with one label and one probability in [0, 1] per
\* row, whatever the labels.
C2_TrainThenPredictEveryRow ==
    (pc \in {"crashed", "generate_report", "done"} /\ y # None /\ Ordinary(df[1])) =>
        /\ predictions # None
        /\ probabilities # None
        /\ Len(predictions[1]) = df[1].n
        /\ Len(probabilities[1]) = df[1].n
        /\ \A i \in 1..df[1].n : probabilities[1][i] \in 0..100

\* C3: the tier of a row is Low exactly when p < 0.3, Medium exactly when
\* 0.3 <= p <= 0.7 and High exactly when p > 0.7.
C3_TierThresholds ==
    df_report # None =>
        \A i \in 1..df_report[1].n :
            /\ (Tier(i) = Some("Low")) <=> (probabilities[1][i] < 30)
            /\ (Tier(i) = Some("Medium")) <=>
                  (probabilities[1][i] >= 30 /\ probabilities[1][i] <= 70)
            /\ (Tier(i) = Some("High")) <=> (probabilities[1][i] > 70)

\* C4: fraud_rate_percent is fraud_detected / total_transactions * 100 to the
\* nearest hundredth, fraud_detected the number of rows predicted fraudulent
\* and total_transactions the number of rows of the batch.
C4_FraudRateRounded ==
    summary # None =>
        LET n == df[1].n
            f == Cardinality({i \in 1..n : predictions[1][i] = 1})
        IN  /\ summary[1].total_transactions = n
            /\ summary[1].fraud_detected = f
            /\ 2 * Abs(summary[1].fraud_rate_percent * n - f * 100 * 100) <= n

C4_Witness ==
    /\ summary # None
    /\ summary[1].total_transactions = 3
    /\ summary[1].fraud_detected = 2
    /\ summary[1].fraud_rate_percent = 6667

\* C5: total_transactions is the number of rows of the input batch, whatever
\* the predictions, the probabilities and the split used while fitting.
C5_TotalIsRowCount ==
    summary # None => summary[1].total_transactions = df[1].n

C5_Witness ==
    /\ pc = "done"
    /\ summary # None
    /\ y # None
    /\ df[1].n = 10
    /\ SumSeq(y[1]) = 2
    /\ summary[1].total_transactions = 10

\* C6: the tier does not go down as the probability goes up: of two rows with
\* p1 <= p2 the first has no higher tier than the second; 0.9 is High, 0.5
\* Medium and 0.1 Low.
TierRank(tier) == IF tier = Some("Low") THEN 1 ELSE IF tier = Some("Medium") THEN 2 ELSE 3

Higher(t1, t2) == ~IsNaN(t1) /\ ~IsNaN(t2) /\ TierRank(t1) > TierRank(t2)

C6_TierMonotonic ==
    df_report # None =>
        /\ \A i, j \in 1..df_report[1].n :
              probabilities[1][i] <= probabilities[1][j] => ~Higher(Tier(i), Tier(j))
        /\ \A i \in 1..df_report[1].n :
              /\ probabilities[1][i] = 90 => Tier(i) = Some("High")
              /\ probabilities[1][i] = 50 => Tier(i) = Some("Medium")
              /\ probabilities[1][i] = 10 => Tier(i) = Some("Low")

C6_Witness ==
    /\ df_report # None
    /\ probabilities = Some(<<10, 50, 90>>)
    /\ Tier(1) = Some("Low")
    /\ Tier(2) = Some("Medium")
    /\ Tier(3) = Some("High")

\* C7: the feature table preprocess_data returns has no missing value.
C7_NoMissingFeature ==
    X # None =>
        \A name \in Range(X[1].columns) : \A i \in 1..X[1].n : ~IsNaN(X[1].data[name][i])

\* C8: a table with none of timestamp, risk_level and transaction_type is
\* preprocessed without an exception into amount, amount_log and
\* amount_squared; the two derived columns are added exactly when fewer than
\* three feature columns were built from the raw columns.
Derived == {"amount_log", "amount_squared"}

NoOptional(t) == Cols(t) \cap {"timestamp", "risk_level", "transaction_type"} = {}

C8_AmountFallback ==
    /\ NoOptional(df[1]) => pc # "crashed"
    /\ X # None =>
          /\ (Derived \subseteq Range(X[1].columns)) <=>
                (Cardinality(Range(X[1].columns) \ Derived) < 3)
          /\ (Derived \cap Range(X[1].columns) # {}) => (Derived \subseteq Range(X[1].columns))
          /\ NoOptional(df[1]) =>
                X[1].columns = (IF "amount" \in Cols(df[1]) THEN <<"amount">> ELSE <<>>)
                               \o <<"amount_log", "amount_squared">>

C8_Witness ==
    /\ X # None
    /\ pc # "crashed"
    /\ NoOptional(df[1])
    /\ df[1].n > 0
    /\ X[1].columns = <<"amount", "amount_log", "amount_squared">>

\* C9: when predict_fraud is applied to a feature table (here one with rows),
\* the table has the columns the model in use was fitted on.
C9_SameColumnsAtPredict ==
    (pc = "predict_fraud" /\ model # None /\ X[1].n > 0) =>
        X[1].columns = model[1].columns

\* C10: a run of main (here on a table with an amount and at least four
\* rows) trains a model and saves it exactly when the table has an is_fraud
\* column, and loads the persisted model otherwise.
C10_TrainAndSaveIffLabelled ==
    (pc \in {"done", "crashed"} /\ X # None /\ Ordinary(df[1])) =>
        /\ Labelled(df[1]) <=> ({"train_model", "save_model"} \subseteq Range(trace))
        /\ ~Labelled(df[1]) => "load_model" \in Range(trace)

\* C11: the table returned by load_data is never changed in place: once
\* preprocess_data has returned, and through generate_report, every column of
\* it holds the values it held when it was read.
C11_LoadedTableUntouched ==
    (df # None /\ "preprocess_data" \in Range(trace)) => df[1] = df_read[1]

\* C12: when the CSV cannot be read, load_data returns None without raising
\* and main ends there: nothing is trained or predicted, no summary and no
\* detailed report is written, and the persisted model file is unchanged.
C12_FailedLoadEndsRun ==
    [][/\ (pc = "load_data" /\ df' = None) =>
            /\ pc' = "done"
            /\ error' = ""
            /\ trace' = <<"load_data">>
            /\ model' = None /\ predictions' = None /\ summary' = None
            /\ UNCHANGED <<model_file, detailed_file, summary_file, root_file>>
       /\ (pc = "done" /\ df = None) => pc' = "load_data"]_vars

C12_Witness ==
    /\ pc = "done" /\ df = None /\ trace = <<"load_data">>
    /\ model_file # None /\ summary_file = Some(1) /\ detailed_file = Some(1)

\* C13: load_model never raises, whether the model file is missing or is
\* present but unreadable; when it cannot load, the model stays None.
C13_LoadModelNeverRaises ==
    [][pc = "load_model" =>
         /\ pc' = "predict_fraud"
         /\ error' = ""
         /\ (model_file \in {None, Unreadable} => model' = None)]_vars

\* C14: generate_report persists the detailed table first and the JSON
\* summary second: the summary of a batch is written only once the detailed
\* table of that batch is on disk, so the summary on disk never describes a
\* later batch than the detailed table does.  The two writes are not atomic:
\* C14_Witness is the state a kill between them leaves.
C14_DetailedThenSummary ==
    [][/\ summary_file' # summary_file =>
            /\ detailed_file = Some(runs)
            /\ summary_file' = Some(runs)
            /\ detailed_file' = detailed_file
       /\ summary_file' # None =>
            (detailed_file' # None /\ summary_file'[1] <= detailed_file'[1])]_vars

\* the detailed table on disk describes the current batch, the summary on
\* disk an earlier one
C14_Witness ==
    /\ pc = "crashed" /\ error = "killed"
    /\ detailed_file = Some(runs)
    /\ summary_file = Some(runs - 1)

\* C15: a run on a labelled table fits its model from scratch: the model it
\* uses and the model file it persists are determined by that run's input
\* table alone, it never loads the model an earlier run persisted, and its
\* predictions and summary come after its own training only.
C15_LabelledRunRefits ==
    (df_read # None /\ Labelled(df_read[1])) =>
        /\ pc # "load_model" /\ "load_model" \notin Range(trace)
        /\ model # None =>
              model[1] = [columns |-> FeatureColumns(df_read[1]),
                          classes |-> {ValOf(df_read[1].data["is_fraud"][i]) :
                                          i \in 1..df_read[1].n}]
        /\ "save_model" \in Range(trace) => model_file = model
        /\ (predictions # None \/ summary # None) => "train_model" \in Range(trace)

\* a labelled second run that completed and persisted its own model
C15_Witness ==
    /\ runs = 2 /\ pc = "done" /\ summary # None
    /\ df_read # None /\ Labelled(df_read[1])
    /\ model_file = model
    /\ root_file = Some(2)

IsPrefix(s, t) == Len(s) <= Len(t) /\ s = SubSeq(t, 1, Len(s))

LastStep == IF trace = <<>> THEN "" ELSE trace[Len(trace)]

\* C16: in every execution of main the steps complete in the order load data,
\* build features, train (and save) or load, predict, generate report; a step
\* starts only when the one before it has returned, and the report is
\* generated only when the prediction returned a result.
C16_StepsInOrder ==
    /\ \/ IsPrefix(trace, <<"load_data", "preprocess_data", "train_model",
                            "save_model", "predict_fraud", "generate_report">>)
       \/ IsPrefix(trace, <<"load_data", "preprocess_data", "load_model",
                            "predict_fraud", "generate_report">>)
    /\ pc = "load_data" => trace = <<>>
    /\ pc = "preprocess" => LastStep = "load_data"
    /\ pc \in {"train_model", "load_model"} => LastStep = "preprocess_data"
    /\ pc = "save_model" => LastStep = "train_model"
    /\ pc = "predict_fraud" => LastStep \in {"save_model", "load_model"}
    /\ pc \in {"generate_report", "write_summary"} =>
          (LastStep = "predict_fraud" /\ predictions # None /\ probabilities # None)
    /\ "generate_report" \in Range(trace) => predictions # None

C16_Witness ==
    /\ pc = "done"
    /\ trace = <<"load_data", "preprocess_data", "load_model", "predict_fraud",
                 "generate_report">>

\* the event the observer thread takes next is for a CSV not yet processed
FreshCsvWaiting ==
    /\ event_queue # <<>>
    /\ ~Head(event_queue).is_directory
    /\ endswith_csv(Head(event_queue).src_path)
    /\ Head(event_queue).src_path \notin processed_files

\* C17: over any sequence of creation events delivered to one handler, the
\* watcher starts the pipeline at most once per distinct file name, and an
\* event whose name is already in processed_files starts nothing.
C17_AtMostOncePerName ==
    [][/\ \A name \in FileNames \cup DirectoryNames : Occurrences(started', name) <= 1
       /\ (/\ event_queue # <<>>
           /\ event_queue' = Tail(event_queue)
           /\ Head(event_queue).src_path \in processed_files) =>
              (started' = started /\ detections' \subseteq detections)]_vars

\* a second creation event for a.csv is next, after the run for a.csv ended
C17_Witness ==
    /\ handler = None /\ detections = {}
    /\ "a.csv" \in Range(started)
    /\ event_queue # <<>>
    /\ Head(event_queue) = CreatedEvent("a.csv", FALSE)

\* C18 as stated: the watcher holds no event back, so that the run for a CSV
\* created while a detection is in progress can start beside it.
C18_EventsNotHeldBack ==
    (InProgress # {} /\ FreshCsvWaiting) => handler = None

\* C18, amended: the handler waits for the detector it started and the
\* observer thread takes the next event only when the handler has returned,
\* so at most one detection started by the watcher is in progress at a time.
C18_OneDetectionAtATime ==
    Cardinality(InProgress) <= 1

\* a CSV created while the run for a previous CSV is in progress
C18_Witness ==
    /\ InProgress # {}
    /\ FreshCsvWaiting
    /\ handler # None /\ handler[1].file # Head(event_queue).src_path

\* C19: the GET endpoints of the dashboard are read-only: a request leaves
\* the fraud report file, the CSV files under data/raw and the state of the
\* data manager as they were.
C19_GetEndpointsReadOnly ==
    [][response' # None =>
          /\ fraud_report_json' = fraud_report_json
          /\ data_raw' = data_raw
          /\ cache' = cache]_vars

\* the transaction list was served from a report on disk
C19_Witness ==
    /\ response # None
    /\ response[1].endpoint = "/api/fraud-data"
    /\ response[1].body.transactions # <<>>
    /\ fraud_report_json # None
    /\ listed # None
    /\ cache = NewCache

\* C20: with the report and the data files unchanged, a second request for
\* the transaction list returns the same transactions (ids, amounts, risk
\* scores and levels) as the one before, and an id of the list returned by
\* /api/transactions resolves in /api/transaction/<id> to the transaction of
\* the list that carries it.
C20_TransactionsStable ==
    [][listed # None =>
          /\ response'[1].endpoint = "/api/transactions" =>
                Range(listed'[1]) = Range(listed[1])
          /\ (/\ response'[1].endpoint = "/api/transaction/<transaction_id>"
              /\ \E t \in Range(listed[1]) : Some(t.id) = response'[1].transaction_id) =>
                (response'[1].status = 200 /\ response'[1].body \in Range(listed[1]))]_vars

\* C25: the fraud count in the commit message for a file is the count that
\* the analysis of that file produced, also when another CSV of data/raw is
\* newer or the report on disk was last written by a run for another file.
C25_CountIsOfTheFile ==
    \A i \in DOMAIN git_log :
        git_log[i].count # None => git_log[i].count = Some(git_log[i].file)

\* C26: the name of a file is in processed_files before the detector is
\* started for it, so a file whose run failed stays in processed_files and a
\* later creation event for it starts nothing.
C26_FailedFileNotProcessedAgain ==
    [][/\ failed_files' \subseteq processed_files'
       /\ handler' # None => handler'[1].file \in processed_files'
       /\ (/\ event_queue # <<>>
           /\ event_queue' = Tail(event_queue)
           /\ Head(event_queue).src_path \in failed_files) =>
              (started' = started /\ handler' = handler /\ git_log' = git_log)]_vars

\* a second creation event for a.csv is next, after the run for a.csv failed
C26_Witness ==
    /\ handler = None
    /\ "a.csv" \in failed_files
    /\ "a.csv" \in Range(started)
    /\ event_queue # <<>>
    /\ Head(event_queue) = CreatedEvent("a.csv", FALSE)

\* C27: auto_commit_and_push is entered only when the detector exited with
\* code 0, with the fraud count read from the report; the push is attempted
\* only after the commit succeeded.  A failed run leads to no commit and no
\* push, a failed commit to no push.
C27_CommitAfterSuccessPushAfterCommit ==
    [][/\ git_log' # git_log =>
            /\ handler # None
            /\ \E d \in detections : d.id = handler[1].id /\ d.returncode = Some(0)
            /\ Len(git_log') = Len(git_log) + 1
            /\ git_log'[Len(git_log')].file = handler[1].file
            /\ git_log'[Len(git_log')].count = extract_fraud_count
       /\ (handler # None /\ handler' = None
             /\ \E d \in detections : d.id = handler[1].id /\ d.returncode = Some(1)) =>
            git_log' = git_log
       /\ \A i \in DOMAIN git_log' :
            git_log'[i].push # "not attempted" => git_log'[i].committed]_vars

\* the run for one file failed, and the run for another exited with 0 and
\* its commit failed
C27_Witness ==
    /\ \E name \in failed_files : name \in Range(started)
    /\ \E i \in DOMAIN git_log :
          /\ git_log[i].file \notin failed_files
          /\ ~git_log[i].committed
          /\ git_log[i].push = "not attempted"

\* C21: for any event lambda_handler returns a response and raises nothing;
\* the statusCode is 200 exactly when SES accepted the message and 500
\* otherwise; the message is the fraud alert of priority HIGH exactly when the
\* fraud_count of the event is greater than 0 and the system-healthy notice
\* of priority NORMAL otherwise; a 200 body carries the fraud count of the
\* event and the recipient of the message.
C21_StatusFollowsSend ==
    lambda_return # None =>
        LET ev == lambda_event[1]
            r  == lambda_return[1]
        IN  /\ r.statusCode \in {200, 500}
            /\ r.statusCode = 200 <=> Len(outbox) = 1
            /\ r.statusCode = 500 <=> outbox = <<>>
            /\ \A i \in DOMAIN outbox :
                  /\ outbox[i].priority = "HIGH" <=> get(ev.fraud_count, <<0>>)[1] > 0
                  /\ outbox[i].priority = "NORMAL" <=> get(ev.fraud_count, <<0>>)[1] <= 0
                  /\ outbox[i].alert_type = "FRAUD DETECTED" <=> outbox[i].priority = "HIGH"
                  /\ outbox[i].alert_type = "SYSTEM HEALTHY" <=> outbox[i].priority = "NORMAL"
            /\ r.statusCode = 200 =>
                  /\ r.body.fraudCount = get(ev.fraud_count, <<0>>)
                  /\ r.body.recipient = outbox[1].to
                  /\ ev.email_recipient # Missing => r.body.recipient = ev.email_recipient

\* SES rejected a fraud alert and the function answered 500
C21_Witness ==
    /\ lambda_return # None
    /\ lambda_return[1].statusCode = 500
    /\ lambda_event[1].kind = "dict"
    /\ lambda_event[1].fraud_count = <<3>>
    /\ lambda_event[1].email_recipient = Str("risk@bank.example")
    /\ lambda_event[1].commit_sha # <<7>>
    /\ ~ses_accepts

\* C22: each generator returns exactly the number of rows and of fraud rows
\* that its main asserts (10 and 2, 15 and 3, 20 and 5), whatever the random
\* draws and the shuffle: the assertions of main never fail.
C22_GeneratedCounts ==
    /\ (generated # None /\ generated[1].pc = "returned") =>
          /\ Len(generated[1].transactions) = generated[1].generator.rows_asserted
          /\ is_fraud_sum(generated[1].transactions) = generated[1].generator.frauds_asserted
          /\ Len(generated[1].transactions) \in {10, 15, 20}
    /\ asserted \in {None, Some("passed")}

\* the 20-row table was returned with a fraud as its first row and main's
\* assertions passed
C22_Witness ==
    /\ generated # None
    /\ generated[1].generator.script = "generate_20_transactions.py"
    /\ generated[1].pc = "returned"
    /\ generated[1].transactions[1] = 1
    /\ asserted = Some("passed")

\* C23: the scaler and the two unsupervised models of train_all_models are
\* fitted only on training rows labelled non-fraud: no training row with
\* is_fraud = 1 is in the data passed to their fit, for every split whose
\* training set is at least as large as the test set.
C23_FittedOnNormalRowsOnly ==
    (X_normal # None /\ Len(train_rows) >= Len(test_rows)) =>
        \A r \in Range(X_normal[1]) : r \in Range(train_rows) /\ y_all[r] = 0

\* C24: in every summary every row of the batch is counted in exactly one
\* risk tier: the numbers of high, medium and low risk transactions add up to
\* total_transactions, for every vector of probabilities, probability 0
\* included.
C24_TiersAddUpToTotal ==
    summary # None =>
        summary[1].high_risk_transactions + summary[1].medium_risk_transactions
            + summary[1].low_risk_transactions = summary[1].total_transactions

\* C28: after every execution of main that completes with a report, the
\* fraud_report.json at the repository root has the content of the
\* outputs/fraud_report.json that this run wrote, and the copy is made only
\* after the summary of this run has been written.
C28_RootReportIsThisRuns ==
    [][/\ (pc' = "done" /\ summary' # None) =>
             (summary_file' = Some(runs') /\ root_file' = summary_file')
       /\ root_file' # root_file =>
             (summary_file = Some(runs) /\ root_file' = summary_file)]_vars

\* the second run completed and replaced the copy the first run had left
C28_Witness ==
    /\ pc = "done"
    /\ summary # None
    /\ runs = 2
    /\ root_file = Some(2)
    /\ summary_file = Some(2)

\* C29: the detailed report is the batch given to generate_report plus the
\* prediction columns: every column of the batch is in the detailed table
\* with the values it has in the batch, for every schema of the input, one
\* with a risk_level column included.
C29_InputColumnsKept ==
    (df_report # None /\ df # None) =>
        \A c \in Cols(df[1]) :
            /\ c \in Cols(df_report[1])
            /\ df_report[1].data[c] = df[1].data[c]

\* C30: in the data returned by get_dashboard_data the statistics agree with
\* the transaction list: highRiskCount + mediumRiskCount + lowRiskCount is
\* fraudDetected, and fraudDetected is the number of transactions returned,
\* whichever of the banking dataset, the fraud report and the raw CSV files
\* are present.
C30_StatisticsMatchList ==
    (response # None /\ response[1].endpoint = "/api/fraud-data") =>
        LET statistics == response[1].body.statistics
        IN  /\ statistics.highRiskCount + statistics.mediumRiskCount
                  + statistics.lowRiskCount = statistics.fraudDetected
            /\ statistics.fraudDetected = Len(response[1].body.transactions)

====
